---- MODULE Spec2Model ----
(***************************************************************************)
(* Booking lifecycle and payment reconciliation of luxe-backend.           *)
(*                                                                         *)
(* Every HTTP request and every webhook delivery is an async Express       *)
(* handler.  Node runs one handler at a time between two `await`s, so an   *)
(* action of this model is the code of one handler from one await to the   *)
(* next; the database round trip that the await waits for takes effect     *)
(* inside that action.  Handlers of different requests interleave at the   *)
(* awaits.                                                                 *)
(***************************************************************************)
EXTENDS Integers, Sequences, FiniteSets, TLC

(***************************************************************************)
(* Bounds of the model.                                                    *)
(***************************************************************************)
MaxDay       == 3   \* calendar days 1..MaxDay
NumUsers     == 2   \* authenticated principals
NumCreate    == 2   \* create-booking requests
NumCancel    == 1   \* guest cancel requests
NumDelivery  == 2   \* webhook deliveries
NumApply     == 2   \* apply-coupon requests
TicksPerDay  == 2   \* resolution of the clock: instants per calendar day
MaxLedger    == 11  \* ledger rows of one user in a balance calculation
NumReview    == 2   \* create-review requests
NumDelete    == 1   \* delete-review requests

Days       == 1..MaxDay
Users      == 1..NumUsers
CreateReqs == 1..NumCreate
CancelReqs == 1..NumCancel
Deliveries == 1..NumDelivery
ApplyReqs  == 1..NumApply
ReviewReqs == 1..NumReview
DeleteReqs == 1..NumDelete

(***************************************************************************)
(* Rows of the properties table that the handlers read.  The model has one *)
(* active property; its host is not one of the guests.                     *)
(***************************************************************************)
Properties == {1}
HostOf(p)  == 0
price_per_night(p) == 150
cleaning_fee(p)    == 20

(***************************************************************************)
(* HTTP statuses.  next(error) hands the error to the global error         *)
(* handler, which answers with a server error.                             *)
(***************************************************************************)
NoResponse == 0
Ok         == 200
Created    == 201
BadRequest == 400
NotFound   == 404
Forbidden  == 403
Conflict   == 409
NextError  == 500

Null == 0 - 1   \* SQL NULL / no row

VARIABLES
    bookings,          \* table bookings: sequence of rows, id = index
    intents,           \* payment intents opened at the gateway: sequence of amounts
    host_payouts,      \* table host_payouts: sequence of rows
    loyalty_transactions, \* table loyalty_transactions: sequence of rows
    luxe_jewels,       \* column users.luxe_jewels, per user
    coupons,           \* table coupons, by coupon id
    coupon_redemptions, \* table coupon_redemptions: sequence of rows
    secretConfigured,  \* process.env.STRIPE_WEBHOOK_SECRET is set
    cr,                \* create-booking requests in flight
    cn,                \* cancel requests in flight
    wh,                \* webhook deliveries in flight
    ap,                \* apply-coupon requests in flight
    calc,              \* a price or discount calculation: its inputs and results
    reviews,           \* table reviews: sequence of rows, id = index
    rv,                \* create-review requests in flight
    rd                 \* delete-review requests in flight

vars == <<bookings, intents, host_payouts, loyalty_transactions, luxe_jewels,
          coupons, coupon_redemptions, secretConfigured, cr, cn, wh, ap, calc,
          reviews, rv, rd>>

\* What the booking and reconciliation handlers read and write.
tables == <<bookings, intents, host_payouts, loyalty_transactions, luxe_jewels>>

\* What only the coupon handler reads and writes.
couponState == <<coupons, coupon_redemptions, ap>>

\* What only the review handlers read and write.
reviewState == <<reviews, rv, rd>>

----------------------------------------------------------------------------
(***************************************************************************)
(* db helpers (config/supabase.js)                                         *)
(***************************************************************************)

BookingIds == 1..Len(bookings)

\* The date filter of the availability query (.overlaps on check_in_date and
\* check_out_date against the requested dates), read as the overlap of the
\* stored stay with the requested stay: an existing row is selected when the
\* two stays share a night.
OverlapsRange(b, checkInDate, checkOutDate) ==
    b.check_in_date < checkOutDate /\ b.check_out_date > checkInDate

\* db.checkPropertyAvailability: no confirmed or pending row of the property
\* is selected by the date filter.
checkPropertyAvailability(propertyId, checkInDate, checkOutDate) ==
    {i \in BookingIds :
        /\ bookings[i].property_id = propertyId
        /\ bookings[i].status \in {"confirmed", "pending"}
        /\ OverlapsRange(bookings[i], checkInDate, checkOutDate)} = {}

\* Mutant of updateBookingStatus: the update without its filter on the id.
updateBookingStatus_unfiltered(bookingId, status) ==
    [i \in DOMAIN bookings |-> [bookings[i] EXCEPT !.status = status]]

\* db.updateBookingStatus: UPDATE bookings SET status WHERE id = bookingId.
\* The row's current status is not part of the filter.
updateBookingStatus(bookingId, status) ==
    [bookings EXCEPT ![bookingId].status = status]

\* db.getPropertyForBooking: the columns of the property row that the price
\* calculation reads.
getPropertyForBooking(propertyId) ==
    [price_per_night |-> price_per_night(propertyId),
     cleaning_fee |-> cleaning_fee(propertyId)]

\* db.createBooking: INSERT of the row, the id is assigned by the table.
createBooking(bookingData) == Append(bookings, bookingData)

----------------------------------------------------------------------------
(***************************************************************************)
(* POST /api/bookings                                                      *)
(***************************************************************************)

IdleCreate ==
    [pc |-> "idle", propertyId |-> 0, guestId |-> 0, checkInDate |-> 0,
     checkOutDate |-> 0, totalPrice |-> 0, paymentIntent |-> 0,
     bookingId |-> 0, response |-> NoResponse]

\* A request that has been answered: what remains of it is the response and,
\* for a 201, the id of the booking it created.
DoneCreate(status, bookingId) ==
    [IdleCreate EXCEPT !.pc = "done", !.response = status, !.bookingId = bookingId]

\* A request refused as unavailable also keeps the stay it asked for.
ConflictCreate(p, ci, co) ==
    [DoneCreate(Conflict, 0) EXCEPT !.propertyId = p, !.checkInDate = ci,
                                    !.checkOutDate = co]

\* Requests take the slots in order (the slots are interchangeable).
SlotFree(f, i) == f[i].pc = "idle" /\ \A j \in DOMAIN f : j < i => f[j].pc # "idle"

\* new Date(checkInDate): the instant, in ticks, of a date-time.  A calendar
\* day of a booking request of the model is the midnight that begins it.
Midnight(day) == day * TicksPerDay

\* Mutant of Nights: the whole days of the stay, a started day not counted.
Nights_floor(checkIn, checkOut) == (checkOut - checkIn) \div TicksPerDay

\* Math.ceil(x / d) for x >= 0 and d > 0.
CeilDiv(x, d) == (x + d - 1) \div d

\* Line 438: Math.ceil((checkOut - checkIn) / (1000 * 60 * 60 * 24)), over
\* instants.
Nights(checkIn, checkOut) == CeilDiv(checkOut - checkIn, TicksPerDay)

\* Line 440: property.price_per_night * nights.
BasePrice(pricePerNight, nights) == pricePerNight * nights

\* Line 441: property.cleaning_fee || 0.
CleaningFee(cleaningFee) == IF cleaningFee = Null THEN 0 ELSE cleaningFee

\* Lines 436-442 for the property row read and the two instants.
TotalPrice(property, checkIn, checkOut) ==
    BasePrice(property.price_per_night, Nights(checkIn, checkOut))
        + CleaningFee(property.cleaning_fee)

\* Lines 397-442: validation, the availability query, the property lookup
\* and the price calculation.  The property row is not written by any
\* handler of the model, so its read is taken together with the availability
\* query that precedes it.  A failed query throws and reaches next(error).
CreateCheckAvailability(r) ==
    /\ SlotFree(cr, r)
    /\ \E p \in Properties, g \in Users, ci \in Days, co \in Days, dbOk \in BOOLEAN :
          /\ co > ci   \* createBookingSchema refinement
          /\ g <= r    \* users are interchangeable: they are named in the
                       \* order in which their first request arrives
          /\ cr' = [cr EXCEPT ![r] =
                IF ~dbOk THEN DoneCreate(NextError, 0)
                ELSE IF ~checkPropertyAvailability(p, ci, co)
                     THEN ConflictCreate(p, ci, co)
                     ELSE [IdleCreate EXCEPT !.pc = "paymentIntent",
                              !.propertyId = p, !.guestId = g,
                              !.checkInDate = ci, !.checkOutDate = co,
                              !.totalPrice = TotalPrice(getPropertyForBooking(p),
                                                Midnight(ci), Midnight(co))]]
    /\ UNCHANGED <<tables, secretConfigured, couponState, cn, wh, calc, reviewState>>

\* Lines 444-459: stripe.paymentIntents.create.  A gateway error is
\* answered 400 (card / invalid request) or passed to next(error).
CreatePaymentIntent(r) ==
    /\ cr[r].pc = "paymentIntent"
    /\ \E outcome \in {"ok", "StripeCardError", "other"} :
          IF outcome = "ok"
          THEN /\ intents' = Append(intents, cr[r].totalPrice * 100)
               /\ cr' = [cr EXCEPT ![r].pc = "insert",
                                   ![r].paymentIntent = Len(intents) + 1]
          ELSE /\ intents' = intents
               /\ cr' = [cr EXCEPT ![r] = DoneCreate(
                            IF outcome = "StripeCardError" THEN BadRequest ELSE NextError, 0)]
    /\ UNCHANGED <<bookings, host_payouts, loyalty_transactions, luxe_jewels,
                   secretConfigured, cn, wh, couponState, calc, reviewState>>

\* Lines 461-503: insert of the pending booking and the 201 response.
CreateInsertBooking(r) ==
    /\ cr[r].pc = "insert"
    /\ \E dbOk \in BOOLEAN :
          IF dbOk
          THEN /\ bookings' = createBooking(
                      [property_id |-> cr[r].propertyId,
                       guest_id |-> cr[r].guestId,
                       check_in_date |-> cr[r].checkInDate,
                       check_out_date |-> cr[r].checkOutDate,
                       total_price |-> cr[r].totalPrice,
                       status |-> "pending",
                       stripe_payment_intent_id |-> cr[r].paymentIntent,
                       \* columns the insert does not set
                       totalPriceInCents |-> Null,
                       discountInCents |-> Null,
                       finalPayoutInCents |-> Null])
               /\ cr' = [cr EXCEPT ![r] = DoneCreate(Created, Len(bookings) + 1)]
          ELSE /\ bookings' = bookings
               /\ cr' = [cr EXCEPT ![r] = DoneCreate(NextError, 0)]
    /\ UNCHANGED <<intents, host_payouts, loyalty_transactions, luxe_jewels,
                   secretConfigured, cn, wh, couponState, calc, reviewState>>

----------------------------------------------------------------------------
(***************************************************************************)
(* POST /api/bookings/:id/cancel                                           *)
(***************************************************************************)

IdleCancel == [pc |-> "idle", id |-> 0, userId |-> 0, response |-> NoResponse]

\* Lines 676-701: select of the booking by id and guest, then the status test
\* on the row that was read.
CancelGetBooking(c) ==
    /\ SlotFree(cn, c)
    /\ \E id \in 1..NumCreate, u \in Users :
          LET req   == [IdleCancel EXCEPT !.id = id, !.userId = u]
              found == id \in BookingIds /\ bookings[id].guest_id = u
          IN  cn' = [cn EXCEPT ![c] =
                 IF ~found THEN [req EXCEPT !.pc = "done", !.response = NotFound]
                 ELSE IF bookings[id].status # "pending"
                      THEN [req EXCEPT !.pc = "done", !.response = BadRequest]
                      ELSE [req EXCEPT !.pc = "update"]]
    /\ UNCHANGED <<tables, secretConfigured, couponState, cr, wh, calc, reviewState>>

\* Lines 703-713: db.updateBookingStatus(id, 'cancelled') and the response.
CancelUpdateStatus(c) ==
    /\ cn[c].pc = "update"
    /\ \E dbOk \in BOOLEAN :
          IF dbOk
          THEN /\ bookings' = updateBookingStatus(cn[c].id, "cancelled")
               /\ cn' = [cn EXCEPT ![c].pc = "done", ![c].response = Ok]
          ELSE /\ bookings' = bookings
               /\ cn' = [cn EXCEPT ![c].pc = "done", ![c].response = NextError]
    /\ UNCHANGED <<intents, host_payouts, loyalty_transactions, luxe_jewels,
                   secretConfigured, cr, wh, couponState, calc, reviewState>>

----------------------------------------------------------------------------
(***************************************************************************)
(* POST /api/webhooks/stripe                                               *)
(***************************************************************************)

Succeeded     == "payment_intent.succeeded"
PaymentFailed == "payment_intent.payment_failed"
Canceled      == "payment_intent.canceled"
Unhandled     == "unhandled"          \* any other event type
EventTypes    == {Succeeded, PaymentFailed, Canceled, Unhandled}

UnknownPI == 0     \* a payment intent id that no booking row carries

\* The gateway emits one event per status change of a payment intent, so an
\* event's id is given by its type and its payment intent; a repeated
\* delivery of an event is a delivery with the same type and intent.
EventId(type, pi) == <<type, pi>>

\* handlePaymentIntentFailed and handlePaymentIntentCanceled are the same code,
\* so a delivery in flight records the handler it runs by the status the
\* handler writes: "confirmed" for handlePaymentIntentSucceeded, "cancelled"
\* for the other two.
IdleDelivery ==
    [pc |-> "idle", sigValid |-> FALSE, target |-> "none", pi |-> 0,
     bookingId |-> 0, pointsEarned |-> 0, response |-> NoResponse]

\* A delivery that has been answered: what remains of it is whether its
\* signature was genuine and the response the gateway got.
Answered(sigValid, status) ==
    [IdleDelivery EXCEPT !.pc = "done", !.sigValid = sigValid, !.response = status]

DoneDelivery(w, status) == Answered(wh[w].sigValid, status)

\* Mutant of constructEvent: the signature is not verified.
constructEvent_unverified(sigValid) == TRUE

\* stripe.webhooks.constructEvent returns the event when the signature header
\* matches the payload under the endpoint secret and throws otherwise.  Whether
\* a delivery's signature is genuine is an input of the delivery.
constructEvent(sigValid) == sigValid

\* The status a handler writes for an event type.
TargetStatus(type) == IF type = Succeeded THEN "confirmed" ELSE "cancelled"

\* Lines 15-71 up to the first await: secret check, signature verification,
\* structure validation and the switch on event.type.  Payment intent
\* events always pass the structure validation; objects of other event
\* types may lack the id the schema requires.
StripeWebhook(w) ==
    /\ SlotFree(wh, w)
    /\ \E sigValid \in BOOLEAN, type \in EventTypes,
          pi \in (1..Len(intents)) \cup {UnknownPI}, wellFormed \in BOOLEAN :
          /\ wellFormed \/ type = Unhandled
          /\ wh' = [wh EXCEPT ![w] =
                IF ~secretConfigured THEN Answered(sigValid, NextError)
                ELSE IF ~constructEvent(sigValid) THEN Answered(sigValid, BadRequest)
                ELSE IF ~wellFormed THEN Answered(sigValid, BadRequest)
                ELSE IF type = Unhandled THEN Answered(sigValid, Ok)
                ELSE [IdleDelivery EXCEPT !.pc = "find", !.sigValid = sigValid,
                                          !.target = TargetStatus(type), !.pi = pi]]
    /\ UNCHANGED <<tables, secretConfigured, couponState, cr, cn, calc, reviewState>>

\* The select of the booking by stripe_payment_intent_id in the three
\* handlers (lines 88-98, 124-134, 154-164); .single() fails unless exactly
\* one row matches, and the handler then returns.
HandlerFindBooking(w) ==
    /\ wh[w].pc = "find"
    /\ \E dbOk \in BOOLEAN :
          LET rows == {i \in BookingIds :
                          bookings[i].stripe_payment_intent_id = wh[w].pi}
          IN  wh' = [wh EXCEPT ![w] =
                 IF dbOk /\ Cardinality(rows) = 1
                 THEN [wh[w] EXCEPT !.pc = "updateStatus",
                                    !.bookingId = CHOOSE i \in rows : TRUE]
                 ELSE DoneDelivery(w, Ok)]
    /\ UNCHANGED <<tables, secretConfigured, couponState, cr, cn, calc, reviewState>>

\* db.updateBookingStatus(booking.id, 'confirmed' | 'cancelled') in the three
\* handlers (lines 100-101, 136-137, 166-167).  A database error is thrown up
\* to the route, which passes it to next(error).
HandlerUpdateStatus(w) ==
    /\ wh[w].pc = "updateStatus"
    /\ \E dbOk \in BOOLEAN :
          IF dbOk
          THEN /\ bookings' = updateBookingStatus(wh[w].bookingId, wh[w].target)
               /\ wh' = [wh EXCEPT ![w] =
                      IF wh[w].target = "confirmed"
                      THEN [wh[w] EXCEPT !.pc = "createHostPayout"]
                      ELSE DoneDelivery(w, Ok)]
          ELSE /\ bookings' = bookings
               /\ wh' = [wh EXCEPT ![w] = DoneDelivery(w, NextError)]
    /\ UNCHANGED <<intents, host_payouts, loyalty_transactions, luxe_jewels,
                   secretConfigured, cr, cn, couponState, calc, reviewState>>

\* Lines 194-197.  Amounts of a payout are kept as multiples of 1/400 of a
\* currency unit, so that 85% of the total and 5% of that are whole numbers.
payoutAmount(total_price)      == total_price * 340   \* total_price * 0.85
tdsDeducted(total_price)       == total_price * 17    \* payoutAmount * 0.05
\* Mutant of finalPayoutAmount: the payout before the deduction.
finalPayoutAmount_gross(total_price) == payoutAmount(total_price)
finalPayoutAmount(total_price) == payoutAmount(total_price) - tdsDeducted(total_price)

\* createHostPayout: the property of the booking is read and the payout row
\* is inserted, computed from the booking row the handler read.  A failed
\* read or insert is logged and the function returns without a payout.
\* (The property row, and total_price, property_id and guest_id of a booking
\* row, are never updated, so the read and the insert are one step and the
\* row read earlier agrees with the stored row.)
createHostPayout(w) ==
    /\ wh[w].pc = "createHostPayout"
    /\ \E propertyOk \in BOOLEAN, insertOk \in BOOLEAN :
          LET booking == bookings[wh[w].bookingId]
          IN  host_payouts' =
                 IF propertyOk /\ insertOk
                 THEN Append(host_payouts,
                        [host_id |-> HostOf(booking.property_id),
                         booking_id |-> wh[w].bookingId,
                         amount |-> finalPayoutAmount(booking.total_price),
                         status |-> "pending",
                         tds_deducted |-> tdsDeducted(booking.total_price),
                         event |-> EventId(Succeeded, wh[w].pi)])
                 ELSE host_payouts
    /\ wh' = [wh EXCEPT ![w].pc = "awardLoyaltyPoints"]
    /\ UNCHANGED <<bookings, intents, loyalty_transactions, luxe_jewels,
                   secretConfigured, cr, cn, couponState, calc, reviewState>>

\* Mutant of pointsEarned: the quotient rounded to the nearest whole number.
pointsEarned_rounded(total_price) == (total_price + 50) \div 100

\* Line 242: Math.floor(booking.total_price / 100).
pointsEarned(total_price) == total_price \div 100

\* awardLoyaltyPoints, lines 230-260: total_price of the booking is read
\* again, the points are computed and the ledger row is inserted.  A failed
\* read or insert is logged and the function returns.
awardLoyaltyPoints(w) ==
    /\ wh[w].pc = "awardLoyaltyPoints"
    /\ \E bookingOk \in BOOLEAN, insertOk \in BOOLEAN :
          LET booking == bookings[wh[w].bookingId]
          IN  IF bookingOk /\ insertOk
              THEN /\ loyalty_transactions' = Append(loyalty_transactions,
                           [user_id |-> booking.guest_id,
                            jewels_earned |-> pointsEarned(booking.total_price),
                            jewels_redeemed |-> 0,
                            booking_id |-> wh[w].bookingId,
                            reason |-> "booking",
                            event |-> EventId(Succeeded, wh[w].pi)])
                   /\ wh' = [wh EXCEPT ![w].pc = "updateUser",
                                       ![w].pointsEarned =
                                           pointsEarned(booking.total_price)]
              ELSE /\ loyalty_transactions' = loyalty_transactions
                   /\ wh' = [wh EXCEPT ![w] = DoneDelivery(w, Ok)]
    /\ UNCHANGED <<bookings, intents, host_payouts, luxe_jewels,
                   secretConfigured, cr, cn, couponState, calc, reviewState>>

\* awardLoyaltyPoints, lines 262-273: the update of users.luxe_jewels through
\* db.supabase.raw.  The client may apply the increment, return an error
\* (logged and dropped) or throw on the call of raw; a throw reaches the
\* route's catch and next(error).
AwardUpdateUser(w) ==
    /\ wh[w].pc = "updateUser"
    /\ \E outcome \in {"ok", "error", "throw"} :
          LET u == bookings[wh[w].bookingId].guest_id
          IN  /\ luxe_jewels' = IF outcome = "ok"
                                THEN [luxe_jewels EXCEPT ![u] = @ + wh[w].pointsEarned]
                                ELSE luxe_jewels
              /\ wh' = [wh EXCEPT ![w] =
                        DoneDelivery(w, IF outcome = "throw" THEN NextError ELSE Ok)]
    /\ UNCHANGED <<bookings, intents, host_payouts, loyalty_transactions,
                   secretConfigured, cr, cn, couponState, calc, reviewState>>

----------------------------------------------------------------------------
(***************************************************************************)
(* POST /api/coupons/apply                                                 *)
(***************************************************************************)

\* Rows of the coupons table.  maxUses and minBookingValue of 0 stand for
\* "not set" (the handler tests them for truthiness).  The first coupon is
\* valid on one day only and may be used once; the second is always valid
\* and unlimited; the third asks for a minimum booking value.
CouponIds == {1, 2, 3}
CouponRow(code, couponType, discountValue, maxUses, minBookingValue, validFrom, validUntil) ==
    [code |-> code, couponType |-> couponType, discountValue |-> discountValue,
     maxUses |-> maxUses, minBookingValue |-> minBookingValue,
     isActive |-> TRUE, validFrom |-> validFrom, validUntil |-> validUntil,
     totalUses |-> 0, totalDiscount |-> 0]
InitialCoupons ==
    [c \in CouponIds |->
        IF c = 1 THEN CouponRow("SAVE10", "percentage", 10, 1, 0, 2, 2)
        ELSE IF c = 2 THEN CouponRow("FLAT50", "fixed", 50, 0, 0, 1, MaxDay)
        ELSE CouponRow("MIN1000", "percentage", 20, 0, 100000, 1, MaxDay)]

\* Codes a request may carry, and String.prototype.toUpperCase on them.
RequestCodes == {"save10", "SAVE10", "FLAT50", "MIN1000", "NOSUCH"}
toUpperCase(code) == IF code = "save10" THEN "SAVE10" ELSE code

\* A JavaScript number from a column value: null converts to 0.
ToNumber(v) == IF v = Null THEN 0 ELSE v

\* Math.round(x / 100) for x >= 0.
RoundDiv100(x) == (x + 50) \div 100

\* Mutant of Min: the first argument, uncapped.
Min_uncapped(a, b) == a

Min(a, b) == IF a <= b THEN a ELSE b

IdleApply ==
    [pc |-> "idle", userId |-> 0, bookingId |-> 0, couponId |-> 0, now |-> 0,
     totalUses |-> 0, totalDiscount |-> 0, discountAmount |-> 0,
     response |-> NoResponse, error |-> "none"]

\* An answered request keeps its response and who asked.
DoneApply(a, status, error) ==
    [IdleApply EXCEPT !.pc = "done", !.userId = ap[a].userId,
                      !.response = status, !.error = error]

\* A request answered 200 also keeps the booking and the coupon it applied.
SuccessApply(a) ==
    [DoneApply(a, Ok, "none") EXCEPT !.bookingId = ap[a].bookingId,
                                     !.couponId = ap[a].couponId]

\* Lines 94-111: the select of the coupon by upper-cased code, active flag
\* and validUntil >= now; the row read stays with the request.
ApplyGetCoupon(a) ==
    /\ SlotFree(ap, a)
    /\ \E code \in RequestCodes, bookingId \in 1..NumCreate, u \in Users, now \in Days :
          LET rows == {c \in CouponIds :
                          /\ coupons[c].code = toUpperCase(code)
                          /\ coupons[c].isActive
                          /\ coupons[c].validUntil >= now}
              req  == [IdleApply EXCEPT !.userId = u, !.bookingId = bookingId]
              \* the request as it goes on; the time of its coupon query
              \* stays with it until its next query
              cont == [req EXCEPT !.now = now]
          IN  ap' = [ap EXCEPT ![a] =
                 IF Cardinality(rows) # 1
                 THEN [req EXCEPT !.pc = "done", !.response = NotFound,
                                  !.error = "NotFoundError"]
                 ELSE LET c == CHOOSE c \in rows : TRUE
                      IN  [cont EXCEPT !.pc = "getBooking", !.couponId = c,
                                      !.totalUses = coupons[c].totalUses,
                                      !.totalDiscount = coupons[c].totalDiscount]]
    /\ UNCHANGED <<tables, secretConfigured, coupons, coupon_redemptions, cr, cn, wh, calc, reviewState>>

\* Mutant of ApplyGetBooking: the use of the coupon is counted before the
\* booking is looked up.
ApplyGetBooking_countFirst(a) ==
    /\ ap[a].pc = "getBooking"
    /\ coupons' = [coupons EXCEPT ![ap[a].couponId].totalUses = @ + 1]
    /\ LET id    == ap[a].bookingId
           found == /\ id \in BookingIds
                    /\ bookings[id].guest_id = ap[a].userId
                    /\ bookings[id].status = "pending"
       IN  ap' = [ap EXCEPT ![a] =
              IF ~found THEN DoneApply(a, NotFound, "NotFoundError")
              ELSE [ap[a] EXCEPT !.pc = "checkRedemption", !.now = 0]]
    /\ UNCHANGED <<tables, secretConfigured, coupon_redemptions, cr, cn, wh, calc, reviewState>>

\* Lines 113-137: the select of the caller's pending booking, then the usage
\* limit test on the coupon row read before.
ApplyGetBooking(a) ==
    /\ ap[a].pc = "getBooking"
    /\ LET id     == ap[a].bookingId
           found  == /\ id \in BookingIds
                     /\ bookings[id].guest_id = ap[a].userId
                     /\ bookings[id].status = "pending"
           coupon == coupons[ap[a].couponId]
       IN  ap' = [ap EXCEPT ![a] =
              IF ~found THEN DoneApply(a, NotFound, "NotFoundError")
              ELSE IF coupon.maxUses # 0 /\ ap[a].totalUses >= coupon.maxUses
                   THEN DoneApply(a, BadRequest, "CouponExhaustedError")
                   ELSE [ap[a] EXCEPT !.pc = "checkRedemption", !.now = 0]]
    /\ UNCHANGED <<tables, secretConfigured, coupons, coupon_redemptions, cr, cn, wh, calc, reviewState>>

\* Lines 168-177: the discount in cents, capped at the booking's amount.
discountAmount(couponType, discountValue, totalPriceInCents) ==
    Min(IF couponType = "percentage"
        THEN RoundDiv100(ToNumber(totalPriceInCents) * discountValue)
        ELSE discountValue * 100,
        ToNumber(totalPriceInCents))

\* Line 206: booking.totalPriceInCents - discountAmount.
finalPayoutInCents(totalPriceInCents, discount) ==
    ToNumber(totalPriceInCents) - discount

\* Lines 139-177: the select of a redemption of this coupon by this user with
\* .single(), which yields a row only when exactly one matches (no row and
\* several rows are both PGRST116, which the handler lets pass); then the
\* minimum booking value test and the discount.
ApplyCheckRedemption(a) ==
    /\ ap[a].pc = "checkRedemption"
    /\ \E dbOk \in BOOLEAN :
          LET rows    == {k \in DOMAIN coupon_redemptions :
                             /\ coupon_redemptions[k].coupon_id = ap[a].couponId
                             /\ coupon_redemptions[k].user_id = ap[a].userId}
              coupon  == coupons[ap[a].couponId]
              booking == bookings[ap[a].bookingId]
          IN  ap' = [ap EXCEPT ![a] =
                 IF ~dbOk THEN DoneApply(a, NextError, "next(error)")
                 ELSE IF Cardinality(rows) = 1
                 THEN DoneApply(a, BadRequest, "DuplicateCouponError")
                 ELSE IF /\ coupon.minBookingValue # 0
                         /\ ToNumber(booking.totalPriceInCents) < coupon.minBookingValue
                 THEN DoneApply(a, BadRequest, "MinimumValueError")
                 ELSE [ap[a] EXCEPT !.pc = "insertRedemption",
                         !.discountAmount = discountAmount(coupon.couponType,
                               coupon.discountValue, booking.totalPriceInCents)]]
    /\ UNCHANGED <<tables, secretConfigured, coupons, coupon_redemptions, cr, cn, wh, calc, reviewState>>

\* Lines 179-190: the insert into coupon_redemptions; an error is thrown.
ApplyInsertRedemption(a) ==
    /\ ap[a].pc = "insertRedemption"
    /\ \E dbOk \in BOOLEAN :
          IF dbOk
          THEN /\ coupon_redemptions' = Append(coupon_redemptions,
                       [user_id |-> ap[a].userId, coupon_id |-> ap[a].couponId,
                        discount_amount |-> ap[a].discountAmount])
               /\ ap' = [ap EXCEPT ![a].pc = "updateCoupon"]
          ELSE /\ coupon_redemptions' = coupon_redemptions
               /\ ap' = [ap EXCEPT ![a] = DoneApply(a, NextError, "next(error)")]
    /\ UNCHANGED <<tables, secretConfigured, coupons, cr, cn, wh, calc, reviewState>>

\* Lines 192-199: the update of the coupon's usage statistics from the row
\* read at the start of the request; its result is not inspected.
ApplyUpdateCoupon(a) ==
    /\ ap[a].pc = "updateCoupon"
    /\ \E dbOk \in BOOLEAN :
          coupons' = IF dbOk
                     THEN [coupons EXCEPT
                             ![ap[a].couponId].totalUses = ap[a].totalUses + 1,
                             ![ap[a].couponId].totalDiscount =
                                 ap[a].totalDiscount + ap[a].discountAmount]
                     ELSE coupons
    /\ ap' = [ap EXCEPT ![a].pc = "updateBooking"]
    /\ UNCHANGED <<tables, secretConfigured, coupon_redemptions, cr, cn, wh, calc, reviewState>>

\* Lines 201-228: the update of the booking with the discount and the 200
\* response; an error is thrown.
ApplyUpdateBooking(a) ==
    /\ ap[a].pc = "updateBooking"
    /\ \E dbOk \in BOOLEAN :
          IF dbOk
          THEN /\ bookings' = [bookings EXCEPT
                      ![ap[a].bookingId].discountInCents = ap[a].discountAmount,
                      ![ap[a].bookingId].finalPayoutInCents =
                          finalPayoutInCents(
                              bookings[ap[a].bookingId].totalPriceInCents,
                              ap[a].discountAmount)]
               /\ ap' = [ap EXCEPT ![a] = SuccessApply(a)]
          ELSE /\ bookings' = bookings
               /\ ap' = [ap EXCEPT ![a] = DoneApply(a, NextError, "next(error)")]
    /\ UNCHANGED <<intents, host_payouts, loyalty_transactions, luxe_jewels,
                   secretConfigured, coupons, coupon_redemptions, cr, cn, wh, calc, reviewState>>

----------------------------------------------------------------------------
(***************************************************************************)
(* POST /api/reviews and DELETE /api/reviews/:id (routes/reviews.js)       *)
(***************************************************************************)

Ratings == {1, 5}   \* createReviewSchema: an integer from 1 to 5

IdleReview ==
    [pc |-> "idle", userId |-> 0, bookingId |-> 0, rating |-> 0,
     response |-> NoResponse]

DoneReview(status) == [IdleReview EXCEPT !.pc = "done", !.response = status]

\* The rows of table reviews that have not been deleted.
LiveReviews == {k \in DOMAIN reviews : ~reviews[k].deleted}

\* Line 121: Math.floor(validatedData.rating * 2).
jewelsEarned(rating) == rating * 2

\* Lines 72-88: the select of the caller's confirmed booking.
ReviewGetBooking(q) ==
    /\ SlotFree(rv, q)
    /\ \E bookingId \in 1..NumCreate, u \in Users, rating \in Ratings :
          LET found == /\ bookingId \in BookingIds
                       /\ bookings[bookingId].guest_id = u
                       /\ bookings[bookingId].status = "confirmed"
          IN  rv' = [rv EXCEPT ![q] =
                 IF ~found THEN DoneReview(NotFound)
                 ELSE [IdleReview EXCEPT !.pc = "checkReview", !.userId = u,
                          !.bookingId = bookingId, !.rating = rating]]
    /\ UNCHANGED <<tables, secretConfigured, couponState, cr, cn, wh, calc,
                   reviews, rd>>

\* Lines 90-107: the select of a review of the booking with .single(), which
\* yields a row only when exactly one matches.
ReviewCheckExisting(q) ==
    /\ rv[q].pc = "checkReview"
    /\ \E dbOk \in BOOLEAN :
          LET rows == {k \in LiveReviews : reviews[k].booking_id = rv[q].bookingId}
          IN  rv' = [rv EXCEPT ![q] =
                 IF ~dbOk THEN DoneReview(NextError)
                 ELSE IF Cardinality(rows) = 1 THEN DoneReview(BadRequest)
                 ELSE [rv[q] EXCEPT !.pc = "insertReview"]]
    /\ UNCHANGED <<tables, secretConfigured, couponState, cr, cn, wh, calc,
                   reviews, rd>>

\* Lines 109-120: the insert of the review; an error is thrown.
ReviewInsert(q) ==
    /\ rv[q].pc = "insertReview"
    /\ \E dbOk \in BOOLEAN :
          IF dbOk
          THEN /\ reviews' = Append(reviews,
                       [booking_id |-> rv[q].bookingId, rating |-> rv[q].rating,
                        deleted |-> FALSE])
               /\ rv' = [rv EXCEPT ![q].pc = "award"]
          ELSE /\ reviews' = reviews
               /\ rv' = [rv EXCEPT ![q] = DoneReview(NextError)]
    /\ UNCHANGED <<tables, secretConfigured, couponState, cr, cn, wh, calc, rd>>

\* Lines 121-142: the insert of the ledger row for the review, whose result
\* is not inspected, and the 201 response.
ReviewAward(q) ==
    /\ rv[q].pc = "award"
    /\ \E insertOk \in BOOLEAN :
          loyalty_transactions' =
             IF insertOk
             THEN Append(loyalty_transactions,
                    [user_id |-> rv[q].userId,
                     jewels_earned |-> jewelsEarned(rv[q].rating),
                     jewels_redeemed |-> Null,
                     booking_id |-> rv[q].bookingId,
                     reason |-> "review",
                     event |-> EventId("review", rv[q].bookingId)])
             ELSE loyalty_transactions
    /\ rv' = [rv EXCEPT ![q] = DoneReview(Created)]
    /\ UNCHANGED <<bookings, intents, host_payouts, luxe_jewels,
                   secretConfigured, couponState, cr, cn, wh, calc, reviews, rd>>

IdleDelete == [pc |-> "idle", id |-> 0, response |-> NoResponse]

\* Lines 241-267: the select of the review with its booking, and the test
\* that the booking is the caller's.
ReviewDeleteGet(x) ==
    /\ SlotFree(rd, x)
    /\ \E id \in 1..NumReview, u \in Users :
          rd' = [rd EXCEPT ![x] =
             IF id \notin LiveReviews
             THEN [IdleDelete EXCEPT !.pc = "done", !.response = NotFound]
             ELSE IF bookings[reviews[id].booking_id].guest_id # u
             THEN [IdleDelete EXCEPT !.pc = "done", !.response = Forbidden]
             ELSE [IdleDelete EXCEPT !.pc = "delete", !.id = id]]
    /\ UNCHANGED <<tables, secretConfigured, couponState, cr, cn, wh, calc,
                   reviews, rv>>

\* Lines 269-280: the delete of the review row; the ledger is not touched.
ReviewDelete(x) ==
    /\ rd[x].pc = "delete"
    /\ \E dbOk \in BOOLEAN :
          IF dbOk
          THEN /\ reviews' = [reviews EXCEPT ![rd[x].id].deleted = TRUE]
               /\ rd' = [rd EXCEPT ![x] =
                         [IdleDelete EXCEPT !.pc = "done", !.response = Ok]]
          ELSE /\ reviews' = reviews
               /\ rd' = [rd EXCEPT ![x] =
                         [IdleDelete EXCEPT !.pc = "done", !.response = NextError]]
    /\ UNCHANGED <<tables, secretConfigured, couponState, cr, cn, wh, calc, rv>>

----------------------------------------------------------------------------
(***************************************************************************)
(* The price calculation of POST /api/bookings and the discount            *)
(* calculation of POST /api/coupons/apply on their own: a calculation      *)
(* starts from the values its handler has read and ends with the values    *)
(* the handler goes on to store.                                           *)
(***************************************************************************)

NoCalc == [fn |-> "none"]

\* Property rows (cleaning_fee may be NULL) and the instants of a request.
PropertyRows ==
    {[price_per_night |-> rate, cleaning_fee |-> fee] :
        rate \in {150, 15000}, fee \in {Null, 0, 20, 2000}}
Instants == 0..Midnight(MaxDay)

PriceInputs ==
    {[fn |-> "price", done |-> FALSE, property |-> row,
      checkIn |-> ci, checkOut |-> co,
      nights |-> 0, basePrice |-> 0, cleaningFee |-> 0, totalPrice |-> 0] :
        row \in PropertyRows,
        ci \in Instants, co \in {t \in Instants : t > 0}}

\* Coupon rows by type and value, and the booking amount the handler reads.
DiscountInputs ==
    {[fn |-> "discount", done |-> FALSE, couponType |-> type,
      discountValue |-> value, totalPriceInCents |-> total,
      discountInCents |-> Null, finalPayoutInCents |-> Null] :
        type \in {"percentage", "fixed"},
        value \in {0, 10, 33, 100, 150, 5000},
        total \in {Null, 0, 1, 15, 17000, 300000}}

\* part_001 lines 436-442; createBookingSchema admits a request only when
\* its check-out is after its check-in.
CalcPrice ==
    /\ calc.fn = "price" /\ ~calc.done
    /\ calc.checkOut > calc.checkIn
    /\ LET nights == Nights(calc.checkIn, calc.checkOut)
       IN  calc' = [calc EXCEPT
                      !.done = TRUE,
                      !.nights = nights,
                      !.basePrice = BasePrice(calc.property.price_per_night, nights),
                      !.cleaningFee = CleaningFee(calc.property.cleaning_fee),
                      !.totalPrice = TotalPrice(calc.property, calc.checkIn,
                                                calc.checkOut)]
    /\ UNCHANGED <<tables, secretConfigured, couponState, cr, cn, wh, reviewState>>

\* coupons.js lines 168-177 and 205-206.
CalcDiscount ==
    /\ calc.fn = "discount" /\ ~calc.done
    /\ LET discount == discountAmount(calc.couponType, calc.discountValue,
                                      calc.totalPriceInCents)
       IN  calc' = [calc EXCEPT
                      !.done = TRUE,
                      !.discountInCents = discount,
                      !.finalPayoutInCents =
                          finalPayoutInCents(calc.totalPriceInCents, discount)]
    /\ UNCHANGED <<tables, secretConfigured, couponState, cr, cn, wh, reviewState>>

\* GET /api/users/loyalty, part_001 lines 186-196.  The ledger rows of the
\* user come newest first; a row of a booking accrual has jewels_redeemed 0,
\* a row of a review has none (NULL).
LedgerRows ==
    {[jewels_earned |-> 1, jewels_redeemed |-> 0],
     [jewels_earned |-> 2, jewels_redeemed |-> Null]}

LoyaltyInputs ==
    {[fn |-> "loyalty", done |-> FALSE, ledger |-> ledger, totalJewels |-> 0] :
        ledger \in UNION {[1..n -> LedgerRows] : n \in 0..MaxLedger}}

\* .limit(10) of the query.
QueryLimit == 10

\* .order('created_at', { ascending: false }).limit(10): the newest rows.
LatestTransactions(ledger) ==
    IF Len(ledger) <= QueryLimit THEN ledger ELSE SubSeq(ledger, 1, QueryLimit)

\* transactions.reduce((sum, t) =>
\*     sum + (t.jewels_earned || 0) - (t.jewels_redeemed || 0), 0)
RECURSIVE totalJewels(_)
totalJewels(transactions) ==
    IF transactions = <<>> THEN 0
    ELSE totalJewels(SubSeq(transactions, 1, Len(transactions) - 1))
            + ToNumber(transactions[Len(transactions)].jewels_earned)
            - ToNumber(transactions[Len(transactions)].jewels_redeemed)

CalcLoyalty ==
    /\ calc.fn = "loyalty" /\ ~calc.done
    /\ calc' = [calc EXCEPT
                   !.done = TRUE,
                   !.totalJewels = totalJewels(LatestTransactions(calc.ledger))]
    /\ UNCHANGED <<tables, secretConfigured, couponState, cr, cn, wh, reviewState>>

----------------------------------------------------------------------------
\* The server has started: the tables are empty but for the coupons, and no
\* request is in flight.
InitProgram ==
    /\ bookings = <<>>
    /\ intents = <<>>
    /\ host_payouts = <<>>
    /\ loyalty_transactions = <<>>
    /\ luxe_jewels = [u \in Users |-> 0]
    /\ secretConfigured \in BOOLEAN
    /\ cr = [r \in CreateReqs |-> IdleCreate]
    /\ cn = [c \in CancelReqs |-> IdleCancel]
    /\ wh = [w \in Deliveries |-> IdleDelivery]
    /\ coupons = InitialCoupons
    /\ coupon_redemptions = <<>>
    /\ ap = [a \in ApplyReqs |-> IdleApply]
    /\ reviews = <<>>
    /\ rv = [q \in ReviewReqs |-> IdleReview]
    /\ rd = [x \in DeleteReqs |-> IdleDelete]

Init == InitProgram /\ calc = NoCalc

\* The calculations on their own, for every input.
InitCalc ==
    InitProgram /\ calc \in PriceInputs \cup DiscountInputs \cup LoyaltyInputs

NextCalc == CalcPrice \/ CalcDiscount \/ CalcLoyalty

SpecCalc == InitCalc /\ [][NextCalc]_vars

Next ==
    \/ \E r \in CreateReqs : CreateCheckAvailability(r)
    \/ \E r \in CreateReqs : CreatePaymentIntent(r)
    \/ \E r \in CreateReqs : CreateInsertBooking(r)
    \/ \E c \in CancelReqs : CancelGetBooking(c)
    \/ \E c \in CancelReqs : CancelUpdateStatus(c)
    \/ \E w \in Deliveries : StripeWebhook(w)
    \/ \E w \in Deliveries : HandlerFindBooking(w)
    \/ \E w \in Deliveries : HandlerUpdateStatus(w)
    \/ \E w \in Deliveries : createHostPayout(w)
    \/ \E w \in Deliveries : awardLoyaltyPoints(w)
    \/ \E w \in Deliveries : AwardUpdateUser(w)

Spec == Init /\ [][Next]_vars

\* The reconciliation of payment events with bookings, without guest cancels.
NextWebhook ==
    \/ \E r \in CreateReqs : CreateCheckAvailability(r)
    \/ \E r \in CreateReqs : CreatePaymentIntent(r)
    \/ \E r \in CreateReqs : CreateInsertBooking(r)
    \/ \E w \in Deliveries : StripeWebhook(w)
    \/ \E w \in Deliveries : HandlerFindBooking(w)
    \/ \E w \in Deliveries : HandlerUpdateStatus(w)
    \/ \E w \in Deliveries : createHostPayout(w)
    \/ \E w \in Deliveries : awardLoyaltyPoints(w)
    \/ \E w \in Deliveries : AwardUpdateUser(w)

SpecWebhook == Init /\ [][NextWebhook]_vars

\* Create-booking requests alone: no booking is ever cancelled or confirmed.
NextCreate ==
    \/ \E r \in CreateReqs : CreateCheckAvailability(r)
    \/ \E r \in CreateReqs : CreatePaymentIntent(r)
    \/ \E r \in CreateReqs : CreateInsertBooking(r)

SpecCreate == Init /\ [][NextCreate]_vars

\* Create-booking and apply-coupon requests.
NextCoupon ==
    \/ \E r \in CreateReqs : CreateCheckAvailability(r)
    \/ \E r \in CreateReqs : CreatePaymentIntent(r)
    \/ \E r \in CreateReqs : CreateInsertBooking(r)
    \/ \E a \in ApplyReqs : ApplyGetCoupon(a)
    \/ \E a \in ApplyReqs : ApplyGetBooking(a)
    \/ \E a \in ApplyReqs : ApplyCheckRedemption(a)
    \/ \E a \in ApplyReqs : ApplyInsertRedemption(a)
    \/ \E a \in ApplyReqs : ApplyUpdateCoupon(a)
    \/ \E a \in ApplyReqs : ApplyUpdateBooking(a)

SpecCoupon == Init /\ [][NextCoupon]_vars

\* One booking from its creation to its settlement: one create-booking
\* request, one apply-coupon request and one webhook delivery.
NextSettle ==
    \/ CreateCheckAvailability(1)
    \/ CreatePaymentIntent(1)
    \/ CreateInsertBooking(1)
    \/ ApplyGetCoupon(1)
    \/ ApplyGetBooking(1)
    \/ ApplyCheckRedemption(1)
    \/ ApplyInsertRedemption(1)
    \/ ApplyUpdateCoupon(1)
    \/ ApplyUpdateBooking(1)
    \/ StripeWebhook(1)
    \/ HandlerFindBooking(1)
    \/ HandlerUpdateStatus(1)
    \/ createHostPayout(1)
    \/ awardLoyaltyPoints(1)
    \/ AwardUpdateUser(1)

SpecSettle == Init /\ [][NextSettle]_vars

\* One booking from its creation to its reviews: one create-booking
\* request, one webhook delivery, and review create and delete requests.
NextReview ==
    \/ CreateCheckAvailability(1)
    \/ CreatePaymentIntent(1)
    \/ CreateInsertBooking(1)
    \/ StripeWebhook(1)
    \/ HandlerFindBooking(1)
    \/ HandlerUpdateStatus(1)
    \/ createHostPayout(1)
    \/ awardLoyaltyPoints(1)
    \/ AwardUpdateUser(1)
    \/ \E q \in ReviewReqs : ReviewGetBooking(q)
    \/ \E q \in ReviewReqs : ReviewCheckExisting(q)
    \/ \E q \in ReviewReqs : ReviewInsert(q)
    \/ \E q \in ReviewReqs : ReviewAward(q)
    \/ \E x \in DeleteReqs : ReviewDeleteGet(x)
    \/ \E x \in DeleteReqs : ReviewDelete(x)

SpecReview == Init /\ [][NextReview]_vars

----------------------------------------------------------------------------
(***************************************************************************)
(* Properties                                                              *)
(***************************************************************************)

\* Half-open stays [checkIn, checkOut) share a night.
StaysOverlap(ci1, co1, ci2, co2) == ci1 < co2 /\ ci2 < co1

RowsOverlap(i, j) ==
    /\ bookings[i].property_id = bookings[j].property_id
    /\ StaysOverlap(bookings[i].check_in_date, bookings[i].check_out_date,
                    bookings[j].check_in_date, bookings[j].check_out_date)

PayoutsOf(b)  == {k \in DOMAIN host_payouts : host_payouts[k].booking_id = b}
AccrualsOf(b) == {k \in DOMAIN loyalty_transactions :
                     /\ loyalty_transactions[k].booking_id = b
                     /\ loyalty_transactions[k].reason = "booking"}

\* C1: of two create-booking requests for overlapping stays of one property
\* at most one ends with a booking created, and a request is refused as
\* unavailable only when a booking of the property overlaps the stay it asked
\* for (so two requests for stays that do not overlap are both granted).
\* Checked where requests are the only operations, so that no booking is
\* cancelled between two requests.
C1_ConcurrentCreate ==
    /\ \A r1, r2 \in CreateReqs :
          (/\ r1 # r2
           /\ cr[r1].response = Created
           /\ cr[r2].response = Created)
          => ~RowsOverlap(cr[r1].bookingId, cr[r2].bookingId)
    /\ \A r \in CreateReqs :
          cr[r].response = Conflict
          => \E i \in BookingIds :
                /\ bookings[i].property_id = cr[r].propertyId
                /\ StaysOverlap(bookings[i].check_in_date, bookings[i].check_out_date,
                                cr[r].checkInDate, cr[r].checkOutDate)

\* C2: availability invariant: no two non-cancelled bookings of one property
\* have overlapping stays.
C2_AvailabilityInvariant ==
    \A i, j \in BookingIds :
        (/\ i # j
         /\ bookings[i].status # "cancelled"
         /\ bookings[j].status # "cancelled")
        => ~RowsOverlap(i, j)

\* C3: however often the payment-succeeded event of a payment intent is
\* delivered, its deliveries together create at most one payout row and at
\* most one booking accrual.
C3_SameEventOnce ==
    \A pi \in 1..Len(intents) :
        /\ Cardinality({k \in DOMAIN host_payouts :
               host_payouts[k].event = EventId(Succeeded, pi)}) <= 1
        /\ Cardinality({k \in DOMAIN loyalty_transactions :
               loyalty_transactions[k].event = EventId(Succeeded, pi)}) <= 1

\* C4: a booking that is confirmed or cancelled keeps that status in every
\* step.
C4_StatusMonotonic ==
    [][\A b \in BookingIds :
          bookings[b].status \in {"confirmed", "cancelled"}
          => bookings'[b].status = bookings[b].status]_vars

\* C5: when a webhook handler comes to write "confirmed" on a cancelled
\* booking, or "cancelled" on a confirmed one, the write is not applied: the
\* booking keeps its status.
C5_NoSilentFlip ==
    [][\A w \in Deliveries :
          (/\ wh[w].pc = "updateStatus"
           /\ wh'[w].pc # "updateStatus"
           /\ bookings[wh[w].bookingId].status \in {"confirmed", "cancelled"}
           /\ bookings[wh[w].bookingId].status # wh[w].target)
          => bookings'[wh[w].bookingId].status = bookings[wh[w].bookingId].status]_vars

\* C6: the users who redeemed a coupon with a usage cap never outnumber the
\* cap, and of the apply requests of different users for a coupon with one
\* use no two are answered as a success.
RedeemersOf(c) == {coupon_redemptions[k].user_id :
                      k \in {n \in DOMAIN coupon_redemptions :
                                coupon_redemptions[n].coupon_id = c}}

C6_UsageCap ==
    /\ \A c \in CouponIds :
          coupons[c].maxUses # 0 => Cardinality(RedeemersOf(c)) <= coupons[c].maxUses
    /\ \A c \in CouponIds :
          coupons[c].maxUses = 1
          => \A a1, a2 \in ApplyReqs :
                (/\ a1 # a2
                 /\ ap[a1].response = Ok /\ ap[a2].response = Ok
                 /\ ap[a1].couponId = c /\ ap[a2].couponId = c)
                => ap[a1].userId = ap[a2].userId

\* C7: a booking never has more than one payout row, whatever payment events
\* were delivered for it.
C7_OnePayoutPerBooking ==
    \A b \in BookingIds : Cardinality(PayoutsOf(b)) <= 1

\* C8: the status write of a guest cancel request changes a booking only
\* when the booking is pending at the write; a confirmed booking stays
\* confirmed and the request is not answered as a success.
C8_CancelOnlyPending ==
    [][\A c \in CancelReqs :
          (cn[c].pc = "update" /\ cn'[c].pc = "done")
          => /\ bookings'[cn[c].id].status = "cancelled"
                   => bookings[cn[c].id].status \in {"pending", "cancelled"}
             /\ bookings[cn[c].id].status = "confirmed"
                   => /\ bookings'[cn[c].id].status = "confirmed"
                      /\ cn'[c].response # Ok]_vars

\* Every delivery in a handler has a genuine signature, and a delivery whose
\* signature is not genuine has been answered 400 (500 where no endpoint
\* secret is configured).
ForgedRejected ==
    \A w \in Deliveries :
        /\ wh[w].pc \notin {"idle", "done"} => wh[w].sigValid
        /\ (wh[w].pc = "done" /\ ~wh[w].sigValid)
              => wh[w].response = IF secretConfigured THEN BadRequest ELSE NextError

\* The step that receives a delivery whose signature is not genuine answers
\* it without success and changes no table.
ForgedChangesNothing ==
    \A w \in Deliveries :
        (wh[w].pc = "idle" /\ wh'[w].pc # "idle" /\ ~wh'[w].sigValid)
        => /\ wh'[w].pc = "done"
           /\ wh'[w].response # Ok
           /\ tables' = tables

\* C9: a delivery whose signature fails verification is rejected (400) in
\* the step that receives it and changes no booking, payout or ledger state;
\* the verification is never skipped: no delivery is in a handler without a
\* genuine signature.
C9_VerificationNeverSkipped == []ForgedRejected /\ [][ForgedChangesNothing]_vars

\* C9 witness: a forged delivery has been answered 400 while a pending
\* booking exists that a payment event could have changed.
C9_Witness ==
    \E w \in Deliveries :
        /\ wh[w].pc = "done" /\ ~wh[w].sigValid /\ wh[w].response = BadRequest
        /\ \E b \in BookingIds : bookings[b].status = "pending"

\* C10: a delivery that passed the signature verification and entered a
\* handler is answered with the success acknowledgment, whatever the
\* downstream work did.
C10_VerifiedAcknowledged ==
    [][\A w \in Deliveries :
          (wh[w].pc \notin {"idle", "done"} /\ wh[w].sigValid /\ wh'[w].pc = "done")
          => wh'[w].response = Ok]_vars

C12_OneRedemptionPerUser ==
    \A c \in CouponIds, u \in Users :
        Cardinality({k \in DOMAIN coupon_redemptions :
                        /\ coupon_redemptions[k].coupon_id = c
                        /\ coupon_redemptions[k].user_id = u}) <= 1

\* C13: for a stay whose check-out is after its check-in, nights is the
\* whole number of days from check-in to check-out, a started day counting
\* as a day, and at least 1; the base price is the nightly rate times the
\* nights and the total is the base price plus the cleaning fee (none when
\* the property has no fee).  Three nights at 15000 with a cleaning fee of
\* 2000 give a base price of 45000 and a total of 47000.
C13_PriceBreakdown ==
    (calc.fn = "price" /\ calc.done)
    => LET stay == calc.checkOut - calc.checkIn
           fee  == IF calc.property.cleaning_fee = Null
                   THEN 0 ELSE calc.property.cleaning_fee
       IN  /\ calc.nights >= 1
           /\ (calc.nights - 1) * TicksPerDay < stay
           /\ stay <= calc.nights * TicksPerDay
           /\ \A n \in 1..MaxDay : stay = n * TicksPerDay => calc.nights = n
           /\ calc.basePrice = calc.property.price_per_night * calc.nights
           /\ calc.totalPrice = calc.basePrice + fee
           /\ (/\ calc.nights = 3
               /\ calc.property.price_per_night = 15000
               /\ calc.property.cleaning_fee = 2000)
              => calc.basePrice = 45000 /\ calc.totalPrice = 47000

\* C13 witness: a stay of three nights that ends within a day, at 15000 a
\* night with a cleaning fee of 2000, has been priced at 47000.
C13_Witness ==
    /\ calc.fn = "price" /\ calc.done
    /\ calc.checkOut - calc.checkIn = 3 * TicksPerDay - 1
    /\ calc.property.price_per_night = 15000
    /\ calc.property.cleaning_fee = 2000
    /\ calc.nights = 3 /\ calc.totalPrice = 47000

\* C14: the ledger row appended for a confirmed booking carries
\* floor(total / 100) points earned, for the total of that booking, and no
\* points redeemed; the points for a total of 47000 are 470.
C14_BookingPoints ==
    /\ \A k \in DOMAIN loyalty_transactions :
          loyalty_transactions[k].reason = "booking"
          => LET row   == loyalty_transactions[k]
                 total == bookings[row.booking_id].total_price
             IN  /\ row.jewels_earned * 100 <= total
                 /\ total < (row.jewels_earned + 1) * 100
                 /\ row.jewels_redeemed = 0
    /\ pointsEarned(47000) = 470

\* C14 witness: a booking whose total is not a multiple of 100 is confirmed
\* and its ledger row carries the total's hundreds.
C14_Witness ==
    \E k \in DOMAIN loyalty_transactions :
        LET row == loyalty_transactions[k]
        IN  /\ row.reason = "booking"
            /\ bookings[row.booking_id].status = "confirmed"
            /\ bookings[row.booking_id].total_price = 170
            /\ row.jewels_earned = 1

\* C15: a payout row is derived from the total of its booking: the gross
\* payout is 85% of the total, the tax withheld is 5% of the gross payout,
\* the stored amount is the gross payout less the tax withheld and the
\* stored tax is the tax withheld, so amount and tax add up to the gross
\* payout.  (Stored values are in units of 1/400.)
C15_PayoutArithmetic ==
    \A k \in DOMAIN host_payouts :
        LET row      == host_payouts[k]
            total    == bookings[row.booking_id].total_price
            gross    == (400 * total * 85) \div 100
            withheld == (gross * 5) \div 100
        IN  /\ 400 * total * 85 = gross * 100
            /\ gross * 5 = withheld * 100
            /\ row.tds_deducted = withheld
            /\ row.amount = gross - withheld
            /\ row.amount + row.tds_deducted = gross

\* C15 witness: the payout of a confirmed booking with total 170 is stored
\* with a tax withheld that is not zero.
C15_Witness ==
    \E k \in DOMAIN host_payouts :
        /\ bookings[host_payouts[k].booking_id].status = "confirmed"
        /\ bookings[host_payouts[k].booking_id].total_price = 170
        /\ host_payouts[k].tds_deducted > 0
        /\ host_payouts[k].amount > host_payouts[k].tds_deducted

C18_ConfirmAllOrNothing ==
    (\A w \in Deliveries : wh[w].pc \in {"idle", "done"})
    => \A b \in BookingIds :
          /\ bookings[b].status = "confirmed"
                => PayoutsOf(b) # {} /\ AccrualsOf(b) # {}
          /\ (PayoutsOf(b) # {} \/ AccrualsOf(b) # {})
                => bookings[b].status = "confirmed"

\* C19: when two deliveries with conflicting transitions for one booking are
\* in their handlers at the same time, the status write of the one that
\* comes second finds the booking no longer pending and is not applied.
C19_ConflictingEventsSerialized ==
    [][\A w1, w2 \in Deliveries :
          (/\ w1 # w2
           /\ wh[w1].pc = "updateStatus" /\ wh'[w1].pc # "updateStatus"
           /\ wh[w2].pc \in {"updateStatus", "createHostPayout",
                              "awardLoyaltyPoints", "updateUser"}
           /\ wh[w2].bookingId = wh[w1].bookingId
           /\ wh[w2].target # wh[w1].target
           /\ bookings[wh[w1].bookingId].status # "pending")
          => bookings'[wh[w1].bookingId].status
                = bookings[wh[w1].bookingId].status]_vars

\* C20: whenever no apply request is in flight, the usage counter of every
\* coupon equals the number of redemption rows of that coupon.
C20_UsageCounterMatches ==
    (\A a \in ApplyReqs : ap[a].pc \in {"idle", "done"})
    => \A c \in CouponIds :
          coupons[c].totalUses =
              Cardinality({k \in DOMAIN coupon_redemptions :
                              coupon_redemptions[k].coupon_id = c})

\* C21: a request gets past the first eligibility check of apply-coupon,
\* coupon active and within its validity window, only when the time of the
\* request is not before the coupon's validFrom and not after its
\* validUntil; the later checks (usage cap, prior redemption, minimum
\* value) are made only for such a request.
C21_ValidityWindowFirst ==
    \A a \in ApplyReqs :
        ap[a].pc = "getBooking"
        => /\ coupons[ap[a].couponId].isActive
           /\ coupons[ap[a].couponId].validFrom <= ap[a].now
           /\ ap[a].now <= coupons[ap[a].couponId].validUntil

\* C22: every payment intent that has been opened is referenced by a stored
\* booking (the intent is opened after the booking has been created), and
\* no two bookings share an intent.
C22_IntentAfterBooking ==
    /\ \A i \in 1..Len(intents) :
          \E b \in BookingIds : bookings[b].stripe_payment_intent_id = i
    /\ \A b1, b2 \in BookingIds :
          (b1 # b2 /\ bookings[b1].stripe_payment_intent_id # Null)
          => bookings[b1].stripe_payment_intent_id
                # bookings[b2].stripe_payment_intent_id

\* C23: when the gateway call of a create-booking request fails, the request
\* is answered with an error and the booking it asked for is stored, pending
\* and without a payment intent.
C23_GatewayFailureKeepsBooking ==
    [][\A r \in CreateReqs :
          (/\ cr[r].pc = "paymentIntent"
           /\ cr'[r].pc = "done"
           /\ Len(intents') = Len(intents))
          => /\ cr'[r].response \in {BadRequest, NextError}
             /\ \E b \in 1..Len(bookings') :
                   /\ bookings'[b].guest_id = cr[r].guestId
                   /\ bookings'[b].property_id = cr[r].propertyId
                   /\ bookings'[b].check_in_date = cr[r].checkInDate
                   /\ bookings'[b].check_out_date = cr[r].checkOutDate
                   /\ bookings'[b].status = "pending"
                   /\ bookings'[b].stripe_payment_intent_id = Null]_vars

\* The sum over a ledger of points earned minus points redeemed.
RECURSIVE LedgerBalance(_)
LedgerBalance(ledger) ==
    IF ledger = <<>> THEN 0
    ELSE LET row == ledger[1]
         IN  (IF row.jewels_earned = Null THEN 0 ELSE row.jewels_earned)
             - (IF row.jewels_redeemed = Null THEN 0 ELSE row.jewels_redeemed)
             + LedgerBalance(Tail(ledger))

\* C24: the loyalty balance reported for a user equals the sum, over all
\* ledger rows of the user, of points earned minus points redeemed.
C24_BalanceIsLedgerSum ==
    (calc.fn = "loyalty" /\ calc.done)
    => calc.totalJewels = LedgerBalance(calc.ledger)

\* C25: at most one coupon is applied to a booking: no two apply requests
\* with different coupons are answered as a success for the same booking.
C25_OneCouponPerBooking ==
    \A a1, a2 \in ApplyReqs :
        (/\ a1 # a2
         /\ ap[a1].response = Ok /\ ap[a2].response = Ok
         /\ ap[a1].bookingId = ap[a2].bookingId)
        => ap[a1].couponId = ap[a2].couponId

\* C26: the discount that a successful apply-coupon request stores is, in
\* cents, the subtotal of the booking times discountValue / 100 for a
\* percentage coupon and the flat discountValue for a fixed coupon, capped
\* at the subtotal.
C26_DiscountOfSubtotal ==
    [][\A a \in ApplyReqs :
          (ap[a].pc = "updateBooking" /\ ap'[a].response = Ok)
          => LET coupon   == coupons[ap[a].couponId]
                 subtotal == 100 * bookings[ap[a].bookingId].total_price
                 flat     == 100 * coupon.discountValue
                 share    == (subtotal * coupon.discountValue) \div 100
                 uncapped == IF coupon.couponType = "percentage"
                             THEN share ELSE flat
             IN  bookings'[ap[a].bookingId].discountInCents
                    = IF uncapped <= subtotal THEN uncapped ELSE subtotal]_vars

\* C27: a delivery that passed the signature verification and is answered
\* without a booking having been found for it (its event type is none of
\* the three payment events, or no booking carries its payment intent) is
\* acknowledged as a success, and the step changes no table.
C27_IgnoredEventsAcknowledged ==
    [][\A w \in Deliveries :
          (/\ wh[w].pc \in {"idle", "find"}
           /\ wh'[w].pc = "done"
           /\ wh'[w].sigValid
           /\ secretConfigured)
          => /\ wh'[w].response = Ok
             /\ tables' = tables]_vars

\* C28: for a confirmed booking to which a coupon was applied, the final
\* total stored by apply-coupon (subtotal minus discount, in cents) is the
\* amount of the booking's payment intent and the total from which its
\* payout and its loyalty points are derived.
C28_OneAmount ==
    \A b \in BookingIds :
        (bookings[b].status = "confirmed" /\ bookings[b].discountInCents # Null)
        => LET final == bookings[b].finalPayoutInCents
           IN  /\ intents[bookings[b].stripe_payment_intent_id] = final
               /\ \A k \in PayoutsOf(b) :
                     100 * (host_payouts[k].amount + host_payouts[k].tds_deducted)
                        = 340 * final
               /\ \A k \in AccrualsOf(b) :
                     loyalty_transactions[k].jewels_earned
                        = (final \div 100) \div 100

\* The steps of an apply-coupon request up to its last eligibility check.
ApplyChecking == {"idle", "getBooking", "checkRedemption"}

\* C29: an apply-coupon request that is rejected (404 or 400) is rejected
\* by one of its lookups or eligibility checks, and neither the rejecting
\* step nor any step the request took before it changes the coupons, the
\* redemption rows or a booking.
C29_RejectedApplyChangesNothing ==
    [][\A a \in ApplyReqs :
          /\ (/\ ap[a].pc # "done" /\ ap'[a].pc = "done"
               /\ ap'[a].response \in {NotFound, BadRequest})
                => ap[a].pc \in ApplyChecking
          /\ (ap[a].pc \in ApplyChecking /\ ap'[a] # ap[a])
                => /\ coupons' = coupons
                   /\ coupon_redemptions' = coupon_redemptions
                   /\ bookings' = bookings]_vars

\* C29 witness: after one request applied a coupon, requests have been
\* rejected for a prior redemption and for the minimum booking value, or for
\* the usage cap.
C29_Witness ==
    /\ coupon_redemptions # <<>>
    /\ \E a \in ApplyReqs :
          /\ ap[a].pc = "done"
          /\ ap[a].error \in {"DuplicateCouponError", "CouponExhaustedError"}

\* C30: a booking never has more than one ledger row with reason 'review',
\* whatever review create and delete requests were made for it.
C30_OneReviewAccrual ==
    \A b \in BookingIds :
        Cardinality({k \in DOMAIN loyalty_transactions :
                        /\ loyalty_transactions[k].reason = "review"
                        /\ loyalty_transactions[k].booking_id = b}) <= 1

====
